---- MODULE Spec2Model ----
(***************************************************************************)
(* CalVer release manager (package release, cmd/release).                  *)
(*                                                                         *)
(* Go strings are modelled as sequences of one-character strings, so that  *)
(* the tag pattern, the number parsing and the formatting are computed     *)
(* character by character as the code computes them.  uint64 values are    *)
(* modelled as normalised decimal digit sequences (most significant digit  *)
(* first, no leading zero, zero is <<0>>) so that they keep their 64 bit   *)
(* width: parsing saturates at 2^64-1 and the increment wraps to 0.        *)
(***************************************************************************)
EXTENDS Integers, Sequences, FiniteSets, TLC

\* ------------------------------------------------------------------- state

VARIABLES
    repo,                 \* the repository's tag references, in ForEach order
    clock,                \* what time.Now() returns: [year, month]
    pc,                   \* where the running process is
    releases,             \* Manager.releases
    AlwaysIncludeNumber,  \* Manager.AlwaysIncludeNumber
    component,            \* the name given to GetProposedName
    proposed,             \* the name GetProposedName returned
    calver,               \* the calVerStandard that name was formatted from
    issued,               \* the tags created so far, with their year and month
    shown,                \* what Release.Message returned last
    runs,                 \* the processes started so far
    budget,               \* the processes that may be started
    flags,                \* the command line of the running process
    remotes,              \* the names of the repository's configured remotes
    remoteTags,           \* the tag names each remote holds
    pushed,               \* what PushTagToRemote returned last
    ops,                  \* the Manager calls of the running process, in order
    gitStat,              \* the directories, with what os.Stat finds for .git
    cwd,                  \* the path given to FindRepoDir
    found                 \* what FindRepoDir returned last

\* the state of the command line, of the remotes and of the file system
envVars == <<flags, remotes, remoteTags, pushed, ops, gitStat, cwd, found>>

vars == <<repo, clock, pc, releases, AlwaysIncludeNumber, component, proposed,
          calver, issued, shown, runs, budget, flags, remotes, remoteTags,
          pushed, ops, gitStat, cwd, found>>

\* ------------------------------------------------------------------ strings

Digits == {"0", "1", "2", "3", "4", "5", "6", "7", "8", "9"}

\* regexp class \d
IsDigit(c) == c \in Digits

DigitVal(c) ==
    CASE c = "0" -> 0 [] c = "1" -> 1 [] c = "2" -> 2 [] c = "3" -> 3
      [] c = "4" -> 4 [] c = "5" -> 5 [] c = "6" -> 6 [] c = "7" -> 7
      [] c = "8" -> 8 [] c = "9" -> 9

DigitChar(d) ==
    CASE d = 0 -> "0" [] d = 1 -> "1" [] d = 2 -> "2" [] d = 3 -> "3"
      [] d = 4 -> "4" [] d = 5 -> "5" [] d = 6 -> "6" [] d = 7 -> "7"
      [] d = 8 -> "8" [] d = 9 -> "9"

\* strings.Contains(s, sub)
Contains(s, sub) ==
    \E i \in 0..(Len(s) - Len(sub)) : SubSeq(s, i + 1, i + Len(sub)) = sub

\* strings.Compare(a, b): -1, 0 or 1 by byte-wise lexicographic order.
\* Characters are ordered by their ASCII code.
CharCode(c) ==
    CASE c = "\n" -> 10 [] c = "-" -> 45 [] c = "." -> 46
      [] c \in Digits -> 48 + DigitVal(c)
      [] c = "a" -> 97 [] c = "b" -> 98 [] c = "e" -> 101 [] c = "l" -> 108
      [] c = "r" -> 114 [] c = "s" -> 115 [] c = "w" -> 119 [] c = "x" -> 120

RECURSIVE Compare(_, _)
Compare(a, b) ==
    IF a = <<>> /\ b = <<>> THEN 0
    ELSE IF a = <<>> THEN -1
    ELSE IF b = <<>> THEN 1
    ELSE IF CharCode(Head(a)) < CharCode(Head(b)) THEN -1
    ELSE IF CharCode(Head(a)) > CharCode(Head(b)) THEN 1
    ELSE Compare(Tail(a), Tail(b))

\* ------------------------------------------------------------------ uint64

\* 1<<64 - 1 = 18446744073709551615
MaxUint64 == <<1, 8, 4, 4, 6, 7, 4, 4, 0, 7, 3, 7, 0, 9, 5, 5, 1, 6, 1, 5>>

RECURSIVE StripZeros(_)
StripZeros(d) ==
    IF Len(d) > 1 /\ Head(d) = 0 THEN StripZeros(Tail(d)) ELSE d

RECURSIVE LexLess(_, _)
LexLess(a, b) ==
    IF a = <<>> THEN FALSE
    ELSE IF Head(a) # Head(b) THEN Head(a) < Head(b)
    ELSE LexLess(Tail(a), Tail(b))

\* a < b on normalised digit sequences
NumLess(a, b) ==
    \/ Len(a) < Len(b)
    \/ Len(a) = Len(b) /\ LexLess(a, b)

NumLeq(a, b) == a = b \/ NumLess(a, b)

\* strconv.ParseUint(s, 10, 64) with the error dropped: the value, or
\* 1<<64 - 1 when the value is out of range.  s is a non-empty digit string.
ParseUint(s) ==
    LET v == StripZeros([i \in 1..Len(s) |-> DigitVal(s[i])])
    IN  IF NumLess(MaxUint64, v) THEN MaxUint64 ELSE v

\* the decimal successor of a digit sequence, without width
RECURSIVE Succ(_)
Succ(d) ==
    IF d = <<>> THEN <<1>>
    ELSE IF d[Len(d)] < 9
         THEN SubSeq(d, 1, Len(d) - 1) \o <<d[Len(d)] + 1>>
         ELSE Succ(SubSeq(d, 1, Len(d) - 1)) \o <<0>>

\* x++ on a uint64: wraps to 0 after 1<<64 - 1
IncUint64(v) == IF v = MaxUint64 THEN <<0>> ELSE Succ(v)

\* small numbers (year, month) as integers
RECURSIVE SmallVal(_)
SmallVal(d) ==
    IF d = <<>> THEN 0 ELSE 10 * SmallVal(SubSeq(d, 1, Len(d) - 1)) + d[Len(d)]

RECURSIVE DigitsOf(_)
DigitsOf(n) ==
    IF n < 10 THEN <<n>> ELSE DigitsOf(n \div 10) \o <<n % 10>>

\* fmt verb %0<w>d applied to a digit sequence: zero-padded to at least w
RECURSIVE PadZeros(_, _)
PadZeros(d, w) == IF Len(d) >= w THEN d ELSE PadZeros(<<0>> \o d, w)

FmtD(d, w) == LET p == PadZeros(d, w) IN [i \in 1..Len(p) |-> DigitChar(p[i])]

\* strings.Index(s, sep): 0-based index of the first occurrence, or -1
Index(s, sep) ==
    IF Contains(s, sep)
    THEN CHOOSE i \in 0..(Len(s) - Len(sep)) :
           /\ SubSeq(s, i + 1, i + Len(sep)) = sep
           /\ \A j \in 0..(i - 1) : SubSeq(s, j + 1, j + Len(sep)) # sep
    ELSE -1

\* the loop of strings.genSplit: at most n further cuts, then the remainder
RECURSIVE SplitLoop(_, _, _)
SplitLoop(s, sep, n) ==
    IF n <= 0 THEN <<s>>
    ELSE LET m == Index(s, sep)
         IN  IF m < 0 THEN <<s>>
             ELSE <<SubSeq(s, 1, m)>>
                  \o SplitLoop(SubSeq(s, m + Len(sep) + 1, Len(s)), sep, n - 1)

\* strings.SplitN(s, sep, n) for a non-empty sep: n = 0 gives no substring,
\* n < 0 all of them, n > 0 at most n, the last one being the unsplit rest.
SplitN(s, sep, n) ==
    IF n = 0 THEN <<>>
    ELSE IF n < 0 THEN SplitLoop(s, sep, Len(s))
    ELSE SplitLoop(s, sep, n - 1)

\* ----------------------------------------------------------------- Release

\* a nil *object.Signature
NoTagger == [absent |-> TRUE]

\* Release.Date
Date(r) == r.Committer.When

\* Release.ReleasedBy
ReleasedBy(r) == IF r.Tagger # NoTagger THEN r.Tagger ELSE r.Committer

\* Release.Message
Message(r) ==
    IF r.ReleaseMessage # <<>> THEN r.ReleaseMessage
    ELSE SplitN(r.CommitMessage, <<"\n">>, 1)[1]

\* Less with the date comparison turned round (Before for After)
LessDateAscending(a, b) ==
    IF Date(a) = Date(b) THEN Compare(a.Tag, b.Tag) = -1
    ELSE Date(a) < Date(b)

\* releaseList.Less on two elements of the list
Less(a, b) ==
    IF Date(a) = Date(b) THEN Compare(a.Tag, b.Tag) = -1
    ELSE Date(a) > Date(b)

\* releaseList.Swap
Swap(s, i, j) == [s EXCEPT ![i] = s[j], ![j] = s[i]]

\* sort.Sort on a slice of at most 12 elements (go 1.14 quickSort, b-a <= 12):
\* one pass with gap 6, then insertionSort.
RECURSIVE GapPass(_, _)
GapPass(s, i) ==
    IF i > Len(s) THEN s
    ELSE GapPass(IF Less(s[i], s[i - 6]) THEN Swap(s, i, i - 6) ELSE s, i + 1)

RECURSIVE Sink(_, _)
Sink(s, j) ==
    IF j > 1 /\ Less(s[j], s[j - 1]) THEN Sink(Swap(s, j, j - 1), j - 1) ELSE s

RECURSIVE InsertionSort(_, _)
InsertionSort(s, i) ==
    IF i > Len(s) THEN s ELSE InsertionSort(Sink(s, i), i + 1)

Sort(s) == IF Len(s) > 1 THEN InsertionSort(GapPass(s, 7), 2) ELSE s

\* ------------------------------------------------------------------ CalVer

\* length of the longest run of digits of s starting at position from
RECURSIVE DigitRun(_, _)
DigitRun(s, from) ==
    IF from <= Len(s) /\ IsDigit(s[from]) THEN 1 + DigitRun(s, from + 1) ELSE 0

\* PatMatch with \d{2,} for the release group
PatMatchTwoDigits(s) ==
    /\ Len(s) >= 11
    /\ \A i \in 1..4 : IsDigit(s[i])
    /\ s[5] = "."
    /\ \A i \in 6..7 : IsDigit(s[i])
    /\ s[8] = "."
    /\ LET k == DigitRun(s, 9)
       IN  /\ k >= 2
           /\ Len(s) >= 9 + k
           /\ s[9 + k] = "-"
           /\ \A i \in (10 + k)..Len(s) : s[i] # "\n"

\* pat.MatchString: ^(\d{4})\.(\d{2})\.(\d{3,})-.*$  ('.' matches no newline,
\* '$' only the end of the text).  The release group is followed by '-', so
\* it is the whole run of digits after the second dot.
PatMatch(s) ==
    /\ Len(s) >= 12
    /\ \A i \in 1..4 : IsDigit(s[i])
    /\ s[5] = "."
    /\ \A i \in 6..7 : IsDigit(s[i])
    /\ s[8] = "."
    /\ LET k == DigitRun(s, 9)
       IN  /\ k >= 3
           /\ Len(s) >= 9 + k
           /\ s[9 + k] = "-"
           /\ \A i \in (10 + k)..Len(s) : s[i] # "\n"

\* pat.FindStringSubmatch: the year, month and release groups
PatGroups(s) ==
    LET k == DigitRun(s, 9)
    IN  [year |-> SubSeq(s, 1, 4), month |-> SubSeq(s, 6, 7),
         release |-> SubSeq(s, 9, 8 + k)]

newCalVerStandard(year, month, rel) ==
    [Year |-> year, Month |-> month, Release |-> rel]

\* FormatRelease leaving the number out of the first release of a month
\* unless AlwaysIncludeNumber is set
FormatReleaseBare(c, release) ==
    IF ~AlwaysIncludeNumber /\ c.Release = <<1>>
    THEN FmtD(DigitsOf(c.Year), 1) \o <<".">> \o FmtD(DigitsOf(c.Month), 2)
           \o <<"-">> \o release
    ELSE FmtD(DigitsOf(c.Year), 1) \o <<".">> \o FmtD(DigitsOf(c.Month), 2)
           \o <<".">> \o FmtD(c.Release, 3) \o <<"-">> \o release

\* FormatRelease adding the hyphen only to a non-empty component that does not
\* begin with one
FormatReleaseNormalized(c, release) ==
    FmtD(DigitsOf(c.Year), 1) \o <<".">> \o FmtD(DigitsOf(c.Month), 2)
      \o <<".">> \o FmtD(c.Release, 3)
      \o (IF release = <<>> THEN <<>>
          ELSE IF Head(release) = "-" THEN release
          ELSE <<"-">> \o release)

\* calVerStandard.FormatRelease: "%d.%02d.%03d-%s"
FormatRelease(c, release) ==
    FmtD(DigitsOf(c.Year), 1) \o <<".">> \o FmtD(DigitsOf(c.Month), 2)
      \o <<".">> \o FmtD(c.Release, 3) \o <<"-">> \o release

\* calVerStandard.IsAfter
IsAfter(c, other) ==
    ~(\/ other.Year > c.Year
      \/ other.Month > c.Month
      \/ NumLess(c.Release, other.Release))

\* IsSameMonth comparing the month alone
IsSameMonthIgnoringYear(c, other) == other.Month = c.Month

\* calVerStandard.IsSameMonth
IsSameMonth(c, other) == other.Year = c.Year /\ other.Month = c.Month

\* calVerStandard.Increase
Increase(c) == [c EXCEPT !.Release = IncUint64(c.Release)]

\* the tag's calVerStandard, as the loop body of getNextDateString parses it
ParseRev(tag) ==
    LET g == PatGroups(tag)
    IN  newCalVerStandard(SmallVal(ParseUint(g.year)),
                          SmallVal(ParseUint(g.month)),
                          ParseUint(g.release))

\* one iteration of the loop of getNextDateString
ScanStep(latest, tag) ==
    IF PatMatch(tag)
    THEN LET rev == ParseRev(tag)
         IN  IF ~IsSameMonth(rev, latest) THEN latest
             ELSE IF IsAfter(rev, latest) THEN rev ELSE latest
    ELSE latest

\* the loop of getNextDateString over r.releases, in order
RECURSIVE ScanReleases(_, _)
ScanReleases(latest, rels) ==
    IF rels = <<>> THEN latest
    ELSE ScanReleases(ScanStep(latest, Head(rels).Tag), Tail(rels))

\* the calVerStandard getNextDateString formats: latest.Increase()
NextCalVer(rels, now) ==
    Increase(ScanReleases(newCalVerStandard(now.year, now.month, <<0>>), rels))

\* Manager.getNextDateString
getNextDateString(rels, name, now) == FormatRelease(NextCalVer(rels, now), name)

\* ------------------------------------------------------------- tag loading

\* plumbing.ReferenceName of a tag: "refs/tags/" followed by the tag name
RefsTags == <<"r", "e", "f", "s", "/", "t", "a", "g", "s", "/">>

RefNameString(t) == RefsTags \o t.name

\* The repository's answer for a tag reference t, by what its hash names:
\*   "commit"      CommitObject succeeds (lightweight tag)
\*   "tag"         CommitObject fails, TagObject and tag.Commit succeed
\*   "tagNoCommit" TagObject succeeds, tag.Commit fails (a tag of a tree,
\*                 of a blob or of another tag)
\*   "none"        CommitObject and TagObject both fail (a reference to a
\*                 tree, a blob or a missing object); TagObject returns nil
RefKinds == {"commit", "tag", "tagNoCommit", "none"}

\* the Release the callback of loadGitTags builds for a lightweight tag
LightRelease(t) ==
    [Tag            |-> SubSeq(RefNameString(t), 11, Len(RefNameString(t))),
     Hash           |-> t.commit,
     ReleaseMessage |-> <<>>,
     CommitMessage  |-> t.message,
     Author         |-> [When |-> t.when],
     Committer      |-> [When |-> t.when],
     Tagger         |-> NoTagger]

\* the Release the callback of loadGitTags builds for an annotated tag
AnnotatedRelease(t) ==
    [Tag            |-> t.tagName,
     Hash           |-> t.commit,
     ReleaseMessage |-> t.tagMessage,
     CommitMessage  |-> t.message,
     Author         |-> [When |-> t.when],
     Committer      |-> [When |-> t.when],
     Tagger         |-> [When |-> t.taggerWhen]]

\* the callback of tagrefs.ForEach on one reference; acc.panic is set when
\* the callback dereferences the nil tag (tag.Name after a failed TagObject)
LoadRef(acc, t) ==
    IF t.kind = "commit"
    THEN [acc EXCEPT !.list = Append(acc.list, LightRelease(t))]
    ELSE IF t.kind = "none"
    THEN [acc EXCEPT !.panic = TRUE]
    ELSE IF t.kind = "tagNoCommit"
    THEN acc
    ELSE [acc EXCEPT !.list = Append(acc.list, AnnotatedRelease(t))]

\* tagrefs.ForEach: the references in the repository's order, until a panic
RECURSIVE ForEach(_, _)
ForEach(acc, refs) ==
    IF refs = <<>> \/ acc.panic THEN acc
    ELSE ForEach(LoadRef(acc, Head(refs)), Tail(refs))

\* Manager.loadGitTags: the list is reset, filled and sorted; a panic ends
\* the process before the sort
loadGitTags(refs) ==
    LET acc == ForEach([list |-> <<>>, panic |-> FALSE], refs)
    IN  IF acc.panic THEN acc ELSE [acc EXCEPT !.list = Sort(acc.list)]

\* --------------------------------------------------------- bounds and inputs

MaxInitTags == 2
MaxLoadTags == 3
MaxMsgLen == 3
MaxRuns == 2
MaxOps == 5
MaxDepth == 2
LastMonth == 7

\* digits to characters
D(t) == [i \in 1..Len(t) |-> DigitChar(t[i])]

TagOf(y, m, o, c) == D(y) \o <<".">> \o D(m) \o <<".">> \o D(o) \o <<"-">> \o c

\* 1<<64 - 2 and 10^20
MaxUint64Less1 ==
    <<1, 8, 4, 4, 6, 7, 4, 4, 0, 7, 3, 7, 0, 9, 5, 5, 1, 6, 1, 4>>
TenTo20 == <<1, 0, 0, 0, 0, 0, 0, 0, 0, 0, 0, 0, 0, 0, 0, 0, 0, 0, 0, 0, 0>>

\* the commit HEAD names
HeadCommit == [id |-> "head", when |-> 2, message |-> <<"a", "\n", "b">>]

LightRef(name, when) ==
    [name |-> name, kind |-> "commit", commit |-> "c", when |-> when,
     message |-> <<"a">>, tagName |-> <<>>, tagMessage |-> <<>>,
     taggerWhen |-> 0]

AnnotatedRef(name, tagName, when) ==
    [name |-> name, kind |-> "tag", commit |-> "c", when |-> when,
     message |-> <<"a">>, tagName |-> tagName, tagMessage |-> <<"b">>,
     taggerWhen |-> when]

BrokenRef(name, kind) ==
    [name |-> name, kind |-> kind, commit |-> "c", when |-> 1,
     message |-> <<"a">>, tagName |-> name, tagMessage |-> <<"b">>,
     taggerWhen |-> 1]

Y2020 == <<2, 0, 2, 0>>
Y2019 == <<2, 0, 1, 9>>
Y2021 == <<2, 0, 2, 1>>
M06 == <<0, 6>>
M07 == <<0, 7>>

\* the component names given to GetProposedName
Names == {<<>>, <<"r">>, <<"w">>, <<"-", "r">>}

\* tag references a repository may hold when the iterations start
IterRefs ==
    { LightRef(TagOf(Y2020, M07, <<0, 0, 1>>, <<"r">>), 1),
      LightRef(TagOf(Y2020, M07, MaxUint64, <<"r">>), 1),
      LightRef(TagOf(Y2020, M06, <<0, 0, 5>>, <<"r">>), 2),
      LightRef(D(Y2020) \o <<".">> \o D(M07) \o <<".">> \o D(<<0, 1>>)
                 \o <<"-", "r">>, 1),
      AnnotatedRef(TagOf(Y2020, M07, <<0, 0, 2>>, <<"w">>),
                   TagOf(Y2020, M07, <<0, 0, 2>>, <<"w">>), 2),
      BrokenRef(<<"x">>, "none") }

\* tag references of the index a single proposal is computed from
PropRefs ==
    { LightRef(TagOf(Y2020, M07, <<0, 0, 1>>, <<"r">>), 1),
      LightRef(TagOf(Y2020, M07, <<0, 1, 0>>, <<"r">>), 2),
      LightRef(TagOf(Y2020, M07, <<9, 9, 9>>, <<"w">>), 1),
      LightRef(TagOf(Y2020, M07, <<0, 0, 0, 5>>, <<"w">>), 2),
      LightRef(TagOf(Y2020, M07, <<1, 0, 0, 0>>, <<"r">>), 1),
      LightRef(TagOf(Y2020, M07, MaxUint64Less1, <<"r">>), 1),
      LightRef(TagOf(Y2020, M07, MaxUint64, <<"r">>), 2),
      LightRef(TagOf(Y2020, M07, TenTo20, <<"w">>), 1),
      LightRef(TagOf(Y2020, M07, <<0, 0, 0>>, <<"r">>), 1),
      LightRef(TagOf(Y2020, M06, <<0, 0, 5>>, <<"r">>), 2),
      LightRef(TagOf(Y2019, M07, <<0, 0, 2>>, <<"r">>), 1),
      LightRef(TagOf(Y2021, M07, <<0, 0, 3>>, <<"w">>), 2),
      \* 2020.07.01-r: an ordinal of two digits
      LightRef(D(Y2020) \o <<".">> \o D(M07) \o <<".">> \o D(<<0, 1>>)
                 \o <<"-", "r">>, 1),
      \* 2020.07.001: no component
      LightRef(D(Y2020) \o <<".">> \o D(M07) \o <<".">> \o D(<<0, 0, 1>>), 2),
      \* x2020.07.001-r: the shape, not at the start
      LightRef(<<"x">> \o TagOf(Y2020, M07, <<0, 0, 1>>, <<"r">>), 1),
      \* 2020.07-r: no ordinal
      LightRef(D(Y2020) \o <<".">> \o D(M07) \o <<"-", "r">>, 1),
      AnnotatedRef(<<"w">>, TagOf(Y2020, M07, <<0, 0, 2>>, <<"w">>), 2) }

\* tag references of every kind, with short names, for the loader
LoadNames == {<<"a">>, <<"b">>, <<"r">>, <<"w">>}

LoadRefs ==
    UNION { { LightRef(n, 1), LightRef(n, 2),
              AnnotatedRef(n, n, 1), AnnotatedRef(n, n, 2),
              AnnotatedRef(n, <<"a">>, 1), AnnotatedRef(n, <<"a">>, 2),
              BrokenRef(n, "tagNoCommit"), BrokenRef(n, "none") }
            : n \in LoadNames }

\* strings of at most n characters over an alphabet
Strings(alphabet, n) == UNION { [1..k -> alphabet] : k \in 0..n }

\* a tag reference with a given annotation and commit message
MsgRefs ==
    { [name |-> <<"a">>, kind |-> IF annotated THEN "tag" ELSE "commit",
       commit |-> "c", when |-> 1, message |-> cm,
       tagName |-> IF annotated THEN <<"a">> ELSE <<>>,
       tagMessage |-> IF annotated THEN tm ELSE <<>>,
       taggerWhen |-> IF annotated THEN 1 ELSE 0]
      : annotated \in BOOLEAN, tm \in {<<>>, <<"b">>, <<"b", "\n", "b">>},
        cm \in Strings({"a", "\n"}, MaxMsgLen) }

\* sequences of at most n distinct-named references drawn from a set
RefSeqs(refs, n) ==
    { s \in UNION { [1..k -> refs] : k \in 0..n } :
        \A i, j \in 1..Len(s) : i # j => s[i].name # s[j].name }

Clocks == { [year |-> 2020, month |-> m] : m \in {LastMonth - 1, LastMonth} }

NoCalVer == newCalVerStandard(0, 0, <<0>>)

\* the state shared by every initial condition: no process has started
Fresh ==
    /\ pc = "start"
    /\ releases = <<>>
    /\ AlwaysIncludeNumber = FALSE
    /\ component = <<>>
    /\ proposed = <<>>
    /\ calver = NoCalVer
    /\ issued = <<>>
    /\ shown = [release |-> <<>>, message |-> <<>>]
    /\ runs = 0

\* no command line was given, nothing was pushed, no path was searched
NoEnv ==
    /\ flags = [none |-> TRUE]
    /\ remotes = {}
    /\ remoteTags = {}
    /\ pushed = [none |-> TRUE]
    /\ ops = <<>>
    /\ gitStat = <<>>
    /\ cwd = <<>>
    /\ found = [none |-> TRUE]

Init ==
    /\ repo \in RefSeqs(IterRefs, MaxInitTags)
    /\ clock \in Clocks
    /\ budget = MaxRuns
    /\ Fresh
    /\ NoEnv

\* one process, over every index a proposal may be computed from
InitPropose ==
    /\ repo \in RefSeqs(PropRefs, MaxInitTags)
    /\ clock \in Clocks
    /\ budget = 1
    /\ Fresh
    /\ NoEnv

\* one process, over every kind and order of tag reference
InitLoad ==
    /\ repo \in RefSeqs(LoadRefs, MaxLoadTags)
    /\ clock = [year |-> 2020, month |-> LastMonth]
    /\ budget = 1
    /\ Fresh
    /\ NoEnv

\* one process, over the messages of one tag
InitMessage ==
    /\ repo \in RefSeqs(MsgRefs, 1)
    /\ clock = [year |-> 2020, month |-> LastMonth]
    /\ budget = 1
    /\ Fresh
    /\ NoEnv

\* ------------------------------------------------- remotes and the push

\* the errors of go-git the Manager tells apart, and every other one
NoError == "nil"
NoErrAlreadyUpToDate == "already up-to-date"
ErrRemoteNotFound == "remote not found"
ErrOther == "authentication required"

\* a check that takes every name for a configured remote
CheckRemoteNil(remote) == NoError

\* Manager.CheckRemote (release.go:137-141)
CheckRemote(remote) ==
    IF remote \in remotes THEN NoError ELSE ErrRemoteNotFound

\* tagToRefspec (release.go:133-135): refs/tags/<tag>:refs/tags/<tag>
tagToRefspec(tag) == [src |-> RefsTags \o tag, dst |-> RefsTags \o tag]

\* repo.Push(options): the remote is looked up, then the transport may fail
\* (net), then the reference is sent unless the remote holds it already
Push(options, net) ==
    IF options.RemoteName \notin remotes THEN ErrRemoteNotFound
    ELSE IF net # NoError THEN net
    ELSE IF <<options.RemoteName, options.RefSpecs.dst>> \in remoteTags
    THEN NoErrAlreadyUpToDate
    ELSE NoError

\* the remote after repo.Push(options) returned err
Received(options, err) ==
    IF err = NoError
    THEN remoteTags \cup {<<options.RemoteName, options.RefSpecs.dst>>}
    ELSE remoteTags

\* the three messages of PushTagToRemote, as fmt.Sprintf fills them
Sprintf(format, tag, remote) == [format |-> format, tag |-> tag, remote |-> remote]

PushTagToRemoteStrict(tag, remote, err) ==
    IF err # NoError
    THEN [msg |-> Sprintf("failed to push tag %s to remote %s", tag, remote),
          err |-> err]
    ELSE [msg |-> Sprintf("pushed tag %s to remote %s", tag, remote),
          err |-> err]

\* Manager.PushTagToRemote (release.go:143-161), from the error of repo.Push
PushTagToRemote(tag, remote, err) ==
    IF err = NoErrAlreadyUpToDate
    THEN [msg |-> Sprintf("nothing pushed, tag %s already existed and was up to date in remote %s",
                          tag, remote),
          err |-> NoError]
    ELSE IF err # NoError
    THEN [msg |-> Sprintf("failed to push tag %s to remote %s", tag, remote),
          err |-> err]
    ELSE [msg |-> Sprintf("pushed tag %s to remote %s", tag, remote),
          err |-> err]

\* ------------------------------------------------------ the file system

\* an absolute path is the sequence of its elements; the root is empty
Root == <<>>

\* filepath.Clean of an absolute path: "." is dropped, ".." drops the
\* element before it and is dropped at the root
RECURSIVE CleanLoop(_, _)
CleanLoop(path, out) ==
    IF path = <<>> THEN out
    ELSE IF Head(path) = "." THEN CleanLoop(Tail(path), out)
    ELSE IF Head(path) = ".."
    THEN CleanLoop(Tail(path),
                   IF out = <<>> THEN out ELSE SubSeq(out, 1, Len(out) - 1))
    ELSE CleanLoop(Tail(path), Append(out, Head(path)))

Clean(path) == CleanLoop(path, <<>>)

\* filepath.Dir of a clean path that is not the root
Dir(path) == SubSeq(path, 1, Len(path) - 1)

\* os.Stat(filepath.Join(path, ".git")): "exists", "notExist" (the error
\* os.IsNotExist takes) or "denied" (any other error)
Stat(path) == gitStat[path]

\* FindRepoDir (release.go:101-112)
RECURSIVE FindRepoDir(_)
FindRepoDir(path) ==
    LET p == Clean(path)
    IN  IF p = Root THEN [dir |-> p, err |-> TRUE]
        ELSE IF Stat(p) = "notExist" THEN FindRepoDir(Dir(p))
        ELSE [dir |-> p, err |-> FALSE]

\* ----------------------------------------------------------------- actions

\* NewManager: a process starts and loads the tags (release.go:114-131)
NewManager ==
    /\ pc = "start"
    /\ runs < budget
    /\ LET r == loadGitTags(repo)
       IN  /\ releases' = r.list
           /\ pc' = IF r.panic THEN "panicked" ELSE "loaded"
    /\ AlwaysIncludeNumber' = FALSE
    /\ runs' = runs + 1
    /\ UNCHANGED <<repo, clock, component, proposed, calver, issued, shown,
                   budget>>
    /\ UNCHANGED envVars

\* main: rm.AlwaysIncludeNumber = true
SetAlwaysIncludeNumber ==
    /\ pc = "loaded"
    /\ ~AlwaysIncludeNumber
    /\ AlwaysIncludeNumber' = TRUE
    /\ UNCHANGED <<repo, clock, pc, releases, component, proposed, calver,
                   issued, shown, runs, budget>>
    /\ UNCHANGED envVars

\* Manager.GetProposedName
GetProposedName(name) ==
    /\ pc = "loaded"
    /\ component' = name
    /\ calver' = NextCalVer(releases, clock)
    /\ proposed' = getNextDateString(releases, name, clock)
    /\ pc' = "proposed"
    /\ UNCHANGED <<repo, clock, releases, AlwaysIncludeNumber, issued, shown,
                   runs, budget>>
    /\ UNCHANGED envVars

\* repo.CreateTag refuses a name whose reference exists (ErrTagExists)
TagExists(name) == \E i \in 1..Len(repo) : repo[i].name = name

\* the reference repo.CreateTag stores: opts nil makes a lightweight tag
NewRef(name, comment) ==
    [name |-> name, kind |-> IF comment = <<>> THEN "commit" ELSE "tag",
     commit |-> HeadCommit.id, when |-> HeadCommit.when,
     message |-> HeadCommit.message,
     tagName |-> IF comment = <<>> THEN <<>> ELSE name,
     tagMessage |-> comment,
     taggerWhen |-> IF comment = <<>> THEN 0 ELSE clock.month]

\* Manager.CreateTag without the check of the identity
CreateTagOutcomeAnonymous(name, comment, user, email, headErr) ==
    IF headErr THEN "headErr"
    ELSE IF TagExists(name) THEN "exists"
    ELSE "created"

\* Manager.CreateTag (release.go:195-219): how the call ends; headErr is the
\* outcome of repo.Head(), "exists" is ErrTagExists of repo.CreateTag
CreateTagOutcome(name, comment, user, email, headErr) ==
    IF headErr THEN "headErr"
    ELSE IF comment # <<>> /\ (user = <<>> \/ email = <<>>) THEN "fatal"
    ELSE IF TagExists(name) THEN "exists"
    ELSE "created"

\* Manager.CreateTag(proposed, comment, user, email)
CreateTag(comment, user, email, headErr) ==
    /\ pc = "proposed"
    /\ LET out == CreateTagOutcome(proposed, comment, user, email, headErr)
       IN  IF out = "created"
           THEN /\ repo' = Append(repo, NewRef(proposed, comment))
                /\ issued' = Append(issued, [year |-> clock.year,
                                             month |-> clock.month,
                                             Release |-> calver.Release,
                                             tag |-> proposed])
                /\ pc' = "created"
           ELSE /\ pc' = IF out = "fatal" THEN "fatal" ELSE "createFailed"
                /\ UNCHANGED <<repo, issued>>
    /\ UNCHANGED <<clock, releases, AlwaysIncludeNumber, component, proposed,
                   calver, shown, runs, budget>>
    /\ UNCHANGED envVars

\* the process ends (os.Exit, log.Fatal, a panic or the end of main); the
\* Manager is gone with it
Exit ==
    /\ pc \in {"proposed", "created", "createFailed", "fatal", "panicked"}
    /\ pc' = "start"
    /\ releases' = <<>>
    /\ AlwaysIncludeNumber' = FALSE
    /\ component' = <<>>
    /\ proposed' = <<>>
    /\ calver' = NoCalVer
    /\ UNCHANGED <<repo, clock, issued, shown, runs, budget>>
    /\ UNCHANGED envVars

\* a month passes between two processes
Tick ==
    /\ pc = "start"
    /\ clock.month < LastMonth
    /\ clock' = [clock EXCEPT !.month = clock.month + 1]
    /\ UNCHANGED <<repo, pc, releases, AlwaysIncludeNumber, component,
                   proposed, calver, issued, shown, runs, budget>>
    /\ UNCHANGED envVars

Texts == {<<>>, <<"a">>}

Next ==
    \/ NewManager
    \/ SetAlwaysIncludeNumber
    \/ \E name \in Names : GetProposedName(name)
    \/ \E comment, user, email \in Texts, headErr \in BOOLEAN :
         CreateTag(comment, user, email, headErr)
    \/ Exit
    \/ Tick

Spec == Init /\ [][Next]_vars

SpecPropose == InitPropose /\ [][Next]_vars

\* the loader alone
NextLoad == NewManager \/ Exit

SpecLoad == InitLoad /\ [][NextLoad]_vars

\* a caller reads the display message of a loaded release
ShowMessage(i) ==
    /\ pc = "loaded"
    /\ shown' = [release |-> releases[i], message |-> Message(releases[i])]
    /\ pc' = "shown"
    /\ UNCHANGED <<repo, clock, releases, AlwaysIncludeNumber, component,
                   proposed, calver, issued, runs, budget>>
    /\ UNCHANGED envVars

NextMessage ==
    \/ NewManager
    \/ \E i \in 1..Len(releases) : ShowMessage(i)

SpecMessage == InitMessage /\ [][NextMessage]_vars

\* ------------------------------------------------------ the command line

\* one call of the Manager, as the running process made it
Op(op, tag, res) == [op |-> op, tag |-> tag, res |-> res, month |-> clock.month]

DefaultModule == <<"r", "e", "l", "e", "a", "s", "e">>
DefaultRemote == "origin"

\* ~/.gitconfig: absent, or with a user name and no email
NoConfig == [loaded |-> FALSE, Name |-> <<>>, Email |-> <<>>]
NameConfig == [loaded |-> TRUE, Name |-> <<"a">>, Email |-> <<>>]

\* the command lines: --component, the first argument, --remote, --msg,
\* --user, --email, --push, --dry-run, and the configuration read at start
CommandLines ==
    [component : {<<>>, <<"r">>}, args : {<<>>, <<<<"w">>>>},
     remote : {DefaultRemote, "up"}, message : Texts, user : Texts,
     email : Texts, doPush : BOOLEAN, dryRun : BOOLEAN,
     config : {NoConfig, NameConfig}]

\* main: the component is "release" unless --component names one, and the
\* first argument replaces both
Module(f) ==
    IF Len(f.args) > 0 THEN f.args[1]
    ELSE IF f.component = <<>> THEN DefaultModule ELSE f.component

\* main: the identity of the flags, with ~/.gitconfig where a flag is empty
User(f) == IF f.config.loaded /\ f.user = <<>> THEN f.config.Name ELSE f.user
Email(f) == IF f.config.loaded /\ f.email = <<>> THEN f.config.Email ELSE f.email

\* the first tag of July 2020 for the default component, and a second one
FirstRelease == TagOf(Y2020, M07, <<0, 0, 1>>, DefaultModule)
SecondRelease == TagOf(Y2020, M07, <<0, 0, 2>>, DefaultModule)

\* tag references the repository of the command may hold: a release, an
\* annotated tag named otherwise than its reference, a reference to nothing
MainRefs ==
    { LightRef(FirstRelease, 1),
      AnnotatedRef(SecondRelease, <<"w">>, 2),
      BrokenRef(<<"x">>, "none") }

\* the file systems of the command: the working directory /a/b of a
\* repository at /a, and the same directories with no repository
RepoAtA == (<<>> :> "notExist") @@ (<<"a">> :> "exists") @@ (<<"a", "b">> :> "notExist")
NoRepo == (<<>> :> "notExist") @@ (<<"a">> :> "notExist") @@ (<<"a", "b">> :> "notExist")

InitMain ==
    /\ repo \in RefSeqs(MainRefs, MaxInitTags)
    /\ clock = [year |-> 2020, month |-> LastMonth]
    /\ budget = 1
    /\ Fresh
    /\ flags = [none |-> TRUE]
    /\ remotes \in {{}, {DefaultRemote}}
    /\ remoteTags \in {{}, {<<DefaultRemote, RefsTags \o FirstRelease>>}}
    /\ pushed = [none |-> TRUE]
    /\ ops = <<>>
    /\ gitStat \in {RepoAtA, NoRepo}
    /\ cwd = <<"a", "b">>
    /\ found = [none |-> TRUE]

\* main, lines 54-112: the flags are parsed, the component and the identity
\* are settled
MainParse(f) ==
    /\ pc = "start"
    /\ runs < budget
    /\ flags' = f
    /\ component' = Module(f)
    /\ runs' = runs + 1
    /\ pc' = "main"
    /\ UNCHANGED <<repo, clock, releases, AlwaysIncludeNumber, proposed,
                   calver, issued, shown, budget, remotes, remoteTags, pushed,
                   ops, gitStat, cwd, found>>

\* main, line 115: release.NewManager(cwd, ...) finds the repository, opens
\* it and loads its tags; CheckIfError ends the process when none is found
MainNewManager ==
    /\ pc = "main"
    /\ found' = FindRepoDir(cwd)
    /\ IF found'.err
       THEN pc' = "fatal" /\ UNCHANGED <<releases, ops>>
       ELSE LET r == loadGitTags(repo)
            IN  /\ releases' = r.list
                /\ ops' = Append(ops, Op("loadGitTags", <<>>,
                                         IF r.panic THEN "panic" ELSE "ok"))
                /\ pc' = IF r.panic THEN "panicked" ELSE "loaded"
    /\ UNCHANGED <<repo, clock, AlwaysIncludeNumber, component, proposed,
                   calver, issued, shown, runs, budget, flags, remotes,
                   remoteTags, pushed, gitStat, cwd>>

\* main, lines 117-120: with --push the remote is checked before anything
\* else is done
MainCheckRemote ==
    /\ pc = "loaded"
    /\ IF flags.doPush
       THEN LET err == CheckRemote(flags.remote)
            IN  /\ ops' = Append(ops, Op("CheckRemote", <<>>, err))
                /\ pc' = IF err # NoError THEN "fatal" ELSE "checked"
       ELSE pc' = "checked" /\ UNCHANGED ops
    /\ UNCHANGED <<repo, clock, releases, AlwaysIncludeNumber, component,
                   proposed, calver, issued, shown, runs, budget, flags,
                   remotes, remoteTags, pushed, gitStat, cwd, found>>

\* main, line 123: rm.AlwaysIncludeNumber = true
MainAlwaysIncludeNumber ==
    /\ pc = "checked"
    /\ AlwaysIncludeNumber' = TRUE
    /\ pc' = "numbered"
    /\ UNCHANGED <<repo, clock, releases, component, proposed, calver, issued,
                   shown, runs, budget>>
    /\ UNCHANGED envVars

\* main, line 126: newRelease := rm.GetProposedName(module)
MainGetProposedName ==
    /\ pc = "numbered"
    /\ calver' = NextCalVer(releases, clock)
    /\ proposed' = getNextDateString(releases, component, clock)
    /\ ops' = Append(ops, Op("GetProposedName", proposed', calver'.Release))
    /\ pc' = "proposed"
    /\ UNCHANGED <<repo, clock, releases, AlwaysIncludeNumber, component,
                   issued, shown, runs, budget, flags, remotes, remoteTags,
                   pushed, gitStat, cwd, found>>

\* main, lines 127-130: with --dry-run the name is printed and the process
\* exits
MainDryRun ==
    /\ pc = "proposed"
    /\ flags.dryRun
    /\ pc' = "exited"
    /\ UNCHANGED <<repo, clock, releases, AlwaysIncludeNumber, component,
                   proposed, calver, issued, shown, runs, budget>>
    /\ UNCHANGED envVars

\* main, lines 131-137, with the error of rm.CreateTag dropped
MainCreateTagUnchecked(headErr) ==
    /\ pc = "proposed"
    /\ ~flags.dryRun
    /\ LET out == CreateTagOutcome(proposed, flags.message, User(flags),
                                   Email(flags), headErr)
       IN  /\ ops' = Append(ops, Op("CreateTag", proposed, out))
           /\ repo' = IF out = "created"
                      THEN Append(repo, NewRef(proposed, flags.message))
                      ELSE repo
           /\ pc' = "created"
    /\ UNCHANGED <<clock, releases, AlwaysIncludeNumber, component, proposed,
                   calver, issued, shown, runs, budget, flags, remotes,
                   remoteTags, pushed, gitStat, cwd, found>>

\* main, lines 131-137: rm.CreateTag(newRelease, message, user, email); an
\* error ends the process in log.Fatal
MainCreateTag(headErr) ==
    /\ pc = "proposed"
    /\ ~flags.dryRun
    /\ LET out == CreateTagOutcome(proposed, flags.message, User(flags),
                                   Email(flags), headErr)
       IN  /\ ops' = Append(ops, Op("CreateTag", proposed, out))
           /\ IF out = "created"
              THEN /\ repo' = Append(repo, NewRef(proposed, flags.message))
                   /\ pc' = "created"
              ELSE /\ pc' = "fatal"
                   /\ UNCHANGED repo
    /\ UNCHANGED <<clock, releases, AlwaysIncludeNumber, component, proposed,
                   calver, issued, shown, runs, budget, flags, remotes,
                   remoteTags, pushed, gitStat, cwd, found>>

\* the options PushTagToRemote hands to repo.Push (release.go:146-152)
PushOptions(tag, remote) == [RemoteName |-> remote, RefSpecs |-> tagToRefspec(tag)]

\* main, lines 138-150, with a push that deletes the tag it could not push
MainPushOrDelete(net) ==
    /\ pc = "created"
    /\ IF flags.doPush
       THEN LET err == Push(PushOptions(proposed, flags.remote), net)
            IN  /\ pushed' = PushTagToRemote(proposed, flags.remote, err)
                /\ remoteTags' = Received(PushOptions(proposed, flags.remote), err)
                /\ ops' = Append(ops, Op("PushTagToRemote", proposed, err))
                /\ repo' = IF pushed'.err # NoError
                           THEN SubSeq(repo, 1, Len(repo) - 1) ELSE repo
       ELSE UNCHANGED <<pushed, remoteTags, ops, repo>>
    /\ pc' = "done"
    /\ UNCHANGED <<clock, releases, AlwaysIncludeNumber, component,
                   proposed, calver, issued, shown, runs, budget, flags,
                   remotes, gitStat, cwd, found>>

\* main, lines 138-150: with --push the created tag is pushed once, and the
\* message is printed whatever the push returned; net is what the transport
\* does
MainPush(net) ==
    /\ pc = "created"
    /\ IF flags.doPush
       THEN LET err == Push(PushOptions(proposed, flags.remote), net)
            IN  /\ pushed' = PushTagToRemote(proposed, flags.remote, err)
                /\ remoteTags' = Received(PushOptions(proposed, flags.remote), err)
                /\ ops' = Append(ops, Op("PushTagToRemote", proposed, err))
       ELSE UNCHANGED <<pushed, remoteTags, ops>>
    /\ pc' = "done"
    /\ UNCHANGED <<repo, clock, releases, AlwaysIncludeNumber, component,
                   proposed, calver, issued, shown, runs, budget, flags,
                   remotes, gitStat, cwd, found>>

NextMain ==
    \/ \E f \in CommandLines : MainParse(f)
    \/ MainNewManager
    \/ MainCheckRemote
    \/ MainAlwaysIncludeNumber
    \/ MainGetProposedName
    \/ MainDryRun
    \/ \E headErr \in BOOLEAN : MainCreateTag(headErr)
    \/ \E net \in {NoError, ErrOther} : MainPush(net)

SpecMain == InitMain /\ [][NextMain]_vars

\* ------------------------------------------------- one Manager, any caller

\* tag references the repository holds when the Manager is made
ManagerRefs ==
    { LightRef(TagOf(Y2020, M07, <<0, 0, 1>>, <<"r">>), 1),
      LightRef(TagOf(Y2020, M06, <<0, 0, 5>>, <<"r">>), 2) }

InitManager ==
    /\ repo \in RefSeqs(ManagerRefs, 1)
    /\ clock = [year |-> 2020, month |-> LastMonth - 1]
    /\ budget = 1
    /\ Fresh
    /\ flags = [none |-> TRUE]
    /\ remotes = {DefaultRemote}
    /\ remoteTags = {}
    /\ pushed = [none |-> TRUE]
    /\ ops = <<>>
    /\ gitStat = RepoAtA
    /\ cwd = <<"a", "b">>
    /\ found = [none |-> TRUE]

\* loadGitTags with no reset of the release list
ManagerLoadGitTagsAppending ==
    /\ pc \in {"start", "ready"}
    /\ Len(ops) < MaxOps
    /\ LET r == loadGitTags(repo)
       IN  /\ releases' = Sort(releases \o r.list)
           /\ ops' = Append(ops, Op("loadGitTags", <<>>,
                                    IF r.panic THEN "panic" ELSE "ok"))
           /\ pc' = IF r.panic THEN "panicked" ELSE "ready"
    /\ UNCHANGED <<repo, clock, AlwaysIncludeNumber, component, proposed,
                   calver, issued, shown, runs, budget, flags, remotes,
                   remoteTags, pushed, gitStat, cwd, found>>

\* mgr.loadGitTags() (release.go:163-193), as NewManager calls it and when
\* it is called again: the release list is reset, filled and sorted
ManagerLoadGitTags ==
    /\ pc \in {"start", "ready"}
    /\ Len(ops) < MaxOps
    /\ LET r == loadGitTags(repo)
       IN  /\ releases' = r.list
           /\ ops' = Append(ops, Op("loadGitTags", <<>>,
                                    IF r.panic THEN "panic" ELSE "ok"))
           /\ pc' = IF r.panic THEN "panicked" ELSE "ready"
    /\ UNCHANGED <<repo, clock, AlwaysIncludeNumber, component, proposed,
                   calver, issued, shown, runs, budget, flags, remotes,
                   remoteTags, pushed, gitStat, cwd, found>>

\* Manager.GetProposedName(name) (release.go:292-296)
ManagerGetProposedName(name) ==
    /\ pc = "ready"
    /\ Len(ops) < MaxOps
    /\ component' = name
    /\ calver' = NextCalVer(releases, clock)
    /\ proposed' = getNextDateString(releases, name, clock)
    /\ ops' = Append(ops, Op("GetProposedName", proposed', calver'.Release))
    /\ UNCHANGED <<repo, clock, pc, releases, AlwaysIncludeNumber, issued,
                   shown, runs, budget, flags, remotes, remoteTags, pushed,
                   gitStat, cwd, found>>

\* Manager.CreateTag of the name proposed last (release.go:195-219)
ManagerCreateTag(comment, user, headErr) ==
    /\ pc = "ready"
    /\ Len(ops) < MaxOps
    /\ proposed # <<>>
    /\ LET out == CreateTagOutcome(proposed, comment, user, <<"a">>, headErr)
       IN  /\ ops' = Append(ops, Op("CreateTag", proposed, out))
           /\ repo' = IF out = "created"
                      THEN Append(repo, NewRef(proposed, comment)) ELSE repo
           /\ pc' = IF out = "fatal" THEN "fatal" ELSE pc
    /\ UNCHANGED <<clock, releases, AlwaysIncludeNumber, component, proposed,
                   calver, issued, shown, runs, budget, flags, remotes,
                   remoteTags, pushed, gitStat, cwd, found>>

\* Manager.CheckRemote(remote) (release.go:137-141)
ManagerCheckRemote(remote) ==
    /\ pc = "ready"
    /\ Len(ops) < MaxOps
    /\ ops' = Append(ops, Op("CheckRemote", <<>>, CheckRemote(remote)))
    /\ UNCHANGED <<repo, clock, pc, releases, AlwaysIncludeNumber, component,
                   proposed, calver, issued, shown, runs, budget, flags,
                   remotes, remoteTags, pushed, gitStat, cwd, found>>

\* Manager.PushTagToRemote of a tag of the repository (release.go:143-161)
ManagerPushTagToRemote(remote, net) ==
    /\ pc = "ready"
    /\ Len(ops) < MaxOps
    /\ TagExists(proposed)
    /\ LET err == Push(PushOptions(proposed, remote), net)
       IN  /\ pushed' = PushTagToRemote(proposed, remote, err)
           /\ remoteTags' = Received(PushOptions(proposed, remote), err)
           /\ ops' = Append(ops, Op("PushTagToRemote", proposed, err))
    /\ UNCHANGED <<repo, clock, pc, releases, AlwaysIncludeNumber, component,
                   proposed, calver, issued, shown, runs, budget, flags,
                   remotes, gitStat, cwd, found>>

\* a month passes while the Manager is held
ManagerTick ==
    /\ pc = "ready"
    /\ clock.month < LastMonth
    /\ clock' = [clock EXCEPT !.month = clock.month + 1]
    /\ UNCHANGED <<repo, pc, releases, AlwaysIncludeNumber, component,
                   proposed, calver, issued, shown, runs, budget>>
    /\ UNCHANGED envVars

NextManager ==
    \/ ManagerLoadGitTags
    \/ \E name \in {<<"r">>, <<"w">>} : ManagerGetProposedName(name)
    \/ \E comment, user \in Texts, headErr \in BOOLEAN :
         ManagerCreateTag(comment, user, headErr)
    \/ \E remote \in {DefaultRemote, "up"} : ManagerCheckRemote(remote)
    \/ \E remote \in {DefaultRemote, "up"}, net \in {NoError, ErrOther} :
         ManagerPushTagToRemote(remote, net)
    \/ ManagerTick

SpecManager == InitManager /\ [][NextManager]_vars

\* ------------------------------------------------- the search of the repository

\* the names of directories, and the elements a path may be written with
DirNames == {"a", "b"}
PathElements == DirNames \cup {".", ".."}

\* the directories of the file system: the root and what lies below it
Dirs == Strings(DirNames, MaxDepth)

\* every file system, and every absolute path written over it
InitFind ==
    /\ repo = <<>>
    /\ clock = [year |-> 2020, month |-> LastMonth]
    /\ budget = 1
    /\ Fresh
    /\ flags = [none |-> TRUE]
    /\ remotes = {}
    /\ remoteTags = {}
    /\ pushed = [none |-> TRUE]
    /\ ops = <<>>
    /\ gitStat \in [Dirs -> {"exists", "notExist", "denied"}]
    /\ cwd \in Strings(PathElements, MaxDepth)
    /\ found = [none |-> TRUE]

\* NewManager, line 116: repoDir, err := FindRepoDir(cwd)
Find ==
    /\ pc = "start"
    /\ found' = FindRepoDir(cwd)
    /\ pc' = IF found'.err THEN "fatal" ELSE "found"
    /\ UNCHANGED <<repo, clock, releases, AlwaysIncludeNumber, component,
                   proposed, calver, issued, shown, runs, budget, flags,
                   remotes, remoteTags, pushed, ops, gitStat, cwd>>

SpecFind == InitFind /\ [][Find]_vars

\* -------------------------------------------------------------- properties

\* "YYYY.MM" of a time
DatePrefix(now) ==
    FmtD(DigitsOf(now.year), 4) \o <<".">> \o FmtD(DigitsOf(now.month), 2)

HasPrefix(s, prefix) ==
    Len(s) >= Len(prefix) /\ SubSeq(s, 1, Len(prefix)) = prefix

\* the date/ordinal portion of a tag name: what precedes its first hyphen
Portion(tag) ==
    IF Contains(tag, <<"-">>) THEN SubSeq(tag, 1, Index(tag, <<"-">>)) ELSE tag

\* the tag has the shape YYYY.MM.NNN-component, NNN of three or more digits
HasShape(tag) ==
    \E k \in 3..Len(tag) :
        /\ Len(tag) >= 9 + k
        /\ \A i \in (1..4) \cup (6..7) \cup (9..(8 + k)) : tag[i] \in Digits
        /\ tag[5] = "." /\ tag[8] = "." /\ tag[9 + k] = "-"
        /\ \A i \in (10 + k)..Len(tag) : tag[i] # "\n"

\* the ordinal a tag of that shape carries, as a number of any size
OrdinalOf(tag) ==
    LET p == Portion(tag)
    IN  StripZeros([i \in 1..(Len(p) - 8) |-> DigitVal(p[8 + i])])

\* the tags of the index that have the shape and the year and month of now
MonthTags(rels, now) ==
    { rels[i].Tag : i \in { j \in 1..Len(rels) :
                              /\ HasShape(rels[j].Tag)
                              /\ HasPrefix(rels[j].Tag, DatePrefix(now)) } }

\* the highest ordinal among them, 0 when there is none
HighestOrdinal(rels, now) ==
    LET ords == { OrdinalOf(t) : t \in MonthTags(rels, now) } \cup {<<0>>}
    IN  CHOOSE n \in ords : \A m \in ords : NumLeq(m, n)

IsCurrentMonth(r) == HasPrefix(r.Tag, DatePrefix(clock))

IsShaped(r) == HasShape(r.Tag)

NoTagContains(s) == \A i \in 1..Len(releases) : ~Contains(releases[i].Tag, s)

\* C1: within one month, the ordinal of every proposed name is strictly
\* greater than the ordinal of every tag the earlier iterations (load, propose,
\* create) issued in that month, whatever the component names were.
C1_Monotonic ==
    pc = "proposed" =>
        \A i \in 1..Len(issued) :
            (issued[i].year = clock.year /\ issued[i].month = clock.month)
                => NumLess(OrdinalOf(issued[i].tag), OrdinalOf(proposed))

\* C2: the proposed name differs from every tag string of the index.
C2_CollisionFree ==
    pc = "proposed" =>
        \A i \in 1..Len(releases) : releases[i].Tag # proposed

\* C3: tags whose year-month prefix is not that of now do not influence the
\* proposal (removing them all leaves the proposed name unchanged), and with
\* AlwaysIncludeNumber set and no tag of the current month the ordinal is 001.
C3_MonthScoping ==
    pc = "proposed" =>
        /\ proposed = getNextDateString(SelectSeq(releases, IsCurrentMonth),
                                        component, clock)
        /\ (AlwaysIncludeNumber
            /\ \A i \in 1..Len(releases) : ~IsCurrentMonth(releases[i]))
             => Portion(proposed) = DatePrefix(clock) \o <<".", "0", "0", "1">>

\* C3 witness: a tag of another month with a higher ordinal is in the index,
\* no tag of the current month is, and 001 is proposed.
C3_Witness ==
    /\ pc = "proposed"
    /\ AlwaysIncludeNumber
    /\ \E i \in 1..Len(releases) :
         /\ HasShape(releases[i].Tag)
         /\ NumLess(<<1>>, OrdinalOf(releases[i].Tag))
    /\ \A i \in 1..Len(releases) : ~IsCurrentMonth(releases[i])
    /\ Portion(proposed) = DatePrefix(clock) \o <<".", "0", "0", "1">>

\* C4 (as claimed): the date/ordinal portion of the proposed name is never a
\* substring of a tag of the index.
C4_SubstringTaken ==
    pc = "proposed" => NoTagContains(Portion(proposed))

\* C4 (amended): only the tags that have the whole shape YYYY.MM.NNN-component
\* count as taken: removing every other tag from the index leaves the
\* proposed name unchanged, also when such a tag contains the proposed
\* date/ordinal portion.
C4_ExactParse ==
    pc = "proposed" =>
        proposed = getNextDateString(SelectSeq(releases, IsShaped),
                                     component, clock)

\* C4 witness: a tag without the shape contains the proposed portion.
C4_Witness ==
    /\ pc = "proposed"
    /\ \E i \in 1..Len(releases) :
         /\ ~HasShape(releases[i].Tag)
         /\ Contains(releases[i].Tag, Portion(proposed))

NormalizedSuffix(name) ==
    IF name = <<>> THEN <<>>
    ELSE IF Head(name) = "-" THEN name
    ELSE <<"-">> \o name

\* C6 (as claimed): the proposed tag is the date/ordinal portion followed by
\* the normalised component suffix; it neither ends in a hyphen nor holds two
\* consecutive hyphens.
C6_Normalized ==
    pc = "proposed" =>
        /\ proposed = Portion(proposed) \o NormalizedSuffix(component)
        /\ proposed[Len(proposed)] # "-"
        /\ ~Contains(proposed, <<"-", "-">>)

\* C6 (amended): the proposed tag is the date/ordinal portion, a hyphen and
\* the component name exactly as given.
C6_HyphenVerbatim ==
    pc = "proposed" =>
        /\ proposed = Portion(proposed) \o <<"-">> \o component
        /\ HasPrefix(Portion(proposed), DatePrefix(clock) \o <<".">>)

\* C6 witness: a hyphen-prefixed component gives two consecutive hyphens.
C6_Witness ==
    /\ pc = "proposed"
    /\ component = <<"-", "r">>
    /\ Contains(proposed, <<"-", "-", "r">>)

\* C7: the proposed ordinal is the highest ordinal of the current month plus
\* one, whatever its size, zero-padded to at least three digits.
C7_NextOrdinal ==
    pc = "proposed" =>
        Portion(proposed) =
            DatePrefix(clock) \o <<".">>
              \o FmtD(Succ(HighestOrdinal(releases, clock)), 3)

\* C8: every load completes, and the index holds exactly one record per
\* resolvable tag reference.
C8_LoadCompletes ==
    /\ pc # "panicked"
    /\ pc = "loaded" =>
         Len(releases) = Cardinality({ i \in 1..Len(repo) :
                                         repo[i].kind \in {"commit", "tag"} })

\* C9: after a load the index is sorted by date descending, and by tag
\* ascending among equal dates.
C9_Sorted ==
    pc = "loaded" =>
        \A i \in 1..(Len(releases) - 1) :
            \/ Date(releases[i]) > Date(releases[i + 1])
            \/ /\ Date(releases[i]) = Date(releases[i + 1])
               /\ Compare(releases[i].Tag, releases[i + 1].Tag) <= 0

\* C9 witness: three records were loaded in an order that is not the
\* repository's, two of them of one date and different tags, one of another.
C9_Witness ==
    /\ pc = "loaded"
    /\ Len(releases) = 3
    /\ Len(repo) = 3
    /\ \A i \in 1..3 : repo[i].kind = "commit"
    /\ [i \in 1..3 |-> releases[i].Tag] # [i \in 1..3 |-> repo[i].name]
    /\ Date(releases[1]) > Date(releases[2])
    /\ Date(releases[2]) = Date(releases[3])
    /\ releases[2].Tag # releases[3].Tag

\* the commit message up to, and without, its first newline
FirstLine(s) ==
    IF Contains(s, <<"\n">>) THEN SubSeq(s, 1, Index(s, <<"\n">>)) ELSE s

\* C10: the display message is the release message when that is not empty,
\* and otherwise the first line of the commit message.
C10_FirstLine ==
    pc = "shown" =>
        shown.message =
            IF shown.release.ReleaseMessage # <<>>
            THEN shown.release.ReleaseMessage
            ELSE FirstLine(shown.release.CommitMessage)

\* the last call the running process made of its Manager
LastOp == ops[Len(ops)]

\* this step is a call of the Manager named op
Calls(op) == Len(ops') = Len(ops) + 1 /\ ops'[Len(ops')].op = op

\* the command line asks for an annotated tag and gives no full identity
IdentityMissing ==
    flags.message # <<>> /\ (User(flags) = <<>> \/ Email(flags) = <<>>)

\* C11 as stated: with an empty message CreateTag never asks for an
\* identity and the tag it creates has no tagger; with a message and an
\* empty name or email it always ends in the fatal identity-missing outcome,
\* with the tags of the repository unchanged.
C11_AlwaysFatal ==
    [][Calls("CreateTag") =>
         LET out == ops'[Len(ops')].res
         IN  /\ flags.message = <<>> =>
                  /\ out # "fatal"
                  /\ out = "created" =>
                       /\ repo' = Append(repo, repo'[Len(repo')])
                       /\ repo'[Len(repo')].kind = "commit"
                       /\ repo'[Len(repo')].tagName = <<>>
             /\ IdentityMissing => out = "fatal" /\ repo' = repo]_vars

\* C11, amended: CreateTag asks for an identity exactly when a message is
\* given and HEAD resolves. With an empty message it never ends in the fatal
\* outcome and the tag it creates is lightweight, whatever name and email
\* are; with a message and an empty name or email it ends in the error of
\* repo.Head() when HEAD does not resolve and in the fatal outcome otherwise,
\* and in both the tags of the repository are unchanged; the fatal outcome
\* happens in no other case, and a tag created with a message is annotated.
C11_IdentityRequired ==
    [][Calls("CreateTag") =>
         LET out == ops'[Len(ops')].res
         IN  /\ flags.message = <<>> =>
                  /\ out # "fatal"
                  /\ out = "created" =>
                       /\ repo' = Append(repo, repo'[Len(repo')])
                       /\ repo'[Len(repo')].kind = "commit"
                       /\ repo'[Len(repo')].tagName = <<>>
             /\ IdentityMissing => out \in {"fatal", "headErr"} /\ repo' = repo
             /\ out = "fatal" => IdentityMissing
             /\ (out = "created" /\ flags.message # <<>>) =>
                  /\ repo'[Len(repo')].kind = "tag"
                  /\ repo'[Len(repo')].tagMessage = flags.message]_vars

\* C11: a run that ended in the fatal outcome, its name taken from
\* ~/.gitconfig and its email empty
C11_Witness ==
    /\ pc = "fatal"
    /\ Len(ops) > 0
    /\ LastOp.op = "CreateTag"
    /\ LastOp.res = "fatal"
    /\ flags.message # <<>>
    /\ User(flags) # <<>>
    /\ Email(flags) = <<>>

\* the push message of a given format for the proposed tag and the remote
PushMessage(format) == Sprintf(format, proposed, flags.remote)

\* C12: PushTagToRemote maps the error of the repository's push to a message
\* and an error: nil gives the confirmation and nil, "already up to date" a
\* message of its own and nil, every other error the failure message and
\* that same error; the returned error is nil exactly when the push
\* succeeded or was already up to date.
C12_PushOutcomes ==
    (pc = "done" /\ flags.doPush) =>
        /\ LastOp.op = "PushTagToRemote"
        /\ LastOp.res = NoError =>
             /\ pushed.msg = PushMessage("pushed tag %s to remote %s")
             /\ pushed.err = NoError
        /\ LastOp.res = NoErrAlreadyUpToDate =>
             /\ pushed.msg = PushMessage("nothing pushed, tag %s already existed and was up to date in remote %s")
             /\ pushed.msg # PushMessage("pushed tag %s to remote %s")
             /\ pushed.err = NoError
        /\ LastOp.res \notin {NoError, NoErrAlreadyUpToDate} =>
             /\ pushed.msg = PushMessage("failed to push tag %s to remote %s")
             /\ pushed.err = LastOp.res
        /\ pushed.err = NoError <=>
             LastOp.res \in {NoError, NoErrAlreadyUpToDate}
        /\ pushed.msg.tag = LastOp.tag

\* C12: a push of a tag the remote held already
C12_Witness ==
    /\ pc = "done"
    /\ flags.doPush
    /\ LastOp.res = NoErrAlreadyUpToDate
    /\ pushed.err = NoError

\* the calls of a given name the running process made
CallsOf(op) == { i \in 1..Len(ops) : ops[i].op = op }

Count(op) == Cardinality(CallsOf(op))

\* the process is over
Ended == pc \in {"done", "exited", "fatal", "panicked"}

\* what C13 says of every state of a run, ended or not
C13_Order ==
    /\ Count("loadGitTags") <= 1
    /\ Count("GetProposedName") <= 1
    /\ Count("CreateTag") <= 1
    /\ Count("PushTagToRemote") <= 1
    /\ \A j \in CallsOf("GetProposedName") :
         \E i \in CallsOf("loadGitTags") : i < j
    /\ \A j \in CallsOf("CreateTag") :
         \E i \in CallsOf("GetProposedName") : i < j /\ ops[i].tag = ops[j].tag
    /\ \A j \in CallsOf("PushTagToRemote") :
         \E i \in CallsOf("CreateTag") :
           i < j /\ ops[i].res = "created" /\ ops[i].tag = ops[j].tag
    /\ (pc # "start" /\ flags.dryRun) =>
         Count("CreateTag") = 0 /\ Count("PushTagToRemote") = 0

C14_TagKept ==
    (pc = "done" /\ flags.doPush /\ pushed.err # NoError) =>
        /\ TagExists(proposed)
        /\ repo[Len(repo)] = NewRef(proposed, flags.message)
        /\ Count("CreateTag") = 1
        /\ Count("PushTagToRemote") = 1

\* C14: a run whose push failed
C14_Witness ==
    /\ pc = "done"
    /\ flags.doPush
    /\ pushed.err = ErrOther
    /\ LastOp.op = "PushTagToRemote"
    /\ TagExists(proposed)

\* C15: with --push and a remote that is not configured the run ends in
\* the check of the remote, before a name is proposed or a tag created, and
\* no push fails for a remote that does not exist.
C15_RemoteCheckedFirst ==
    /\ (pc \notin {"start", "main", "loaded", "panicked"} /\ ~found.err
          /\ flags.doPush /\ flags.remote \notin remotes) =>
         /\ pc = "fatal"
         /\ LastOp.op = "CheckRemote"
         /\ Count("GetProposedName") = 0
         /\ Count("CreateTag") = 0
    /\ \A j \in CallsOf("PushTagToRemote") : ops[j].res # ErrRemoteNotFound
    /\ \A j \in CallsOf("CreateTag") :
         flags.doPush => flags.remote \in remotes

\* C15: a run ended by the check of the remote
C15_Witness ==
    /\ pc = "fatal"
    /\ Len(ops) > 0
    /\ LastOp.op = "CheckRemote"
    /\ LastOp.res = ErrRemoteNotFound
    /\ flags.doPush
    /\ Count("CreateTag") = 0

\* no loadGitTags call lies between the calls i and j
NoReloadBetween(i, j) ==
    \A k \in CallsOf("loadGitTags") : ~(i < k /\ k < j)

\* proposals made in one month with no reload between them have one ordinal
SameOrdinal ==
    \A i, j \in CallsOf("GetProposedName") :
        (i < j /\ ops[i].month = ops[j].month /\ NoReloadBetween(i, j)) =>
            ops[i].res = ops[j].res

\* C16: the release index is written by loadGitTags alone, which resets it
\* (the index never holds more releases than the repository holds tags);
\* GetProposedName, CreateTag, CheckRemote and PushTagToRemote leave it as
\* it is, so two proposals of one month with no reload between them have the
\* same ordinal, a tag created between them or not.
C16_Snapshot ==
    [][/\ releases' # releases => Calls("loadGitTags")
       /\ Len(releases') <= Len(repo')
       /\ SameOrdinal']_vars

\* C16: a proposal, the creation of the proposed tag, and a second proposal
\* of the same ordinal
C16_Witness ==
    \E i, j \in CallsOf("GetProposedName"), k \in CallsOf("CreateTag") :
        /\ i < k /\ k < j
        /\ ops[k].res = "created"
        /\ ops[i].month = ops[j].month
        /\ ops[i].res = ops[j].res
        /\ TagExists(ops[i].tag)

\* the path and all its ancestors, the root among them
Ancestors(path) == { SubSeq(path, 1, k) : k \in 0..Len(path) }

\* the directories among them that hold a .git entry
WithGit(path) == { d \in Ancestors(path) : gitStat[d] = "exists" }

\* C17: FindRepoDir returns the nearest directory, among the path and all
\* its ancestors up to and including the root, that holds a .git entry, and
\* the error exactly when none of them holds one.
C17_Nearest ==
    pc \in {"found", "fatal"} =>
        /\ found.err <=> WithGit(Clean(cwd)) = {}
        /\ ~found.err =>
             /\ found.dir \in WithGit(Clean(cwd))
             /\ \A d \in WithGit(Clean(cwd)) : Len(d) <= Len(found.dir)

====
